---- MODULE Spec2Model ----
(***************************************************************************)
(* LogsProcessor of cognitum: the pipeline that turns Discord guild events *)
(* (member add / remove / update, ban add / remove) into log notices.      *)
(*                                                                         *)
(* One pipeline = one platform event: the proxy listener, the resolver     *)
(* (#resolveMemberRemove, #resolveBanManagementEvent, #resolveMemberUpdate)*)
(* the internal emitter, #handleEvent with #resolveChannel, the renderer   *)
(* and channel.send.  Every `await` of the code is a point where the       *)
(* pipeline is suspended; the promise awaited is either fulfilled or       *)
(* rejected.  The code between two awaits runs without interruption (one   *)
(* JavaScript turn) and is one action.  For fetchAuditLogs the fulfilment  *)
(* (the log arrives) and the turn that reads it are two consecutive        *)
(* actions, so that the fetched log is part of a state.                    *)
(*                                                                         *)
(* What the platform answers is an input of the step that receives it:     *)
(* the audit log of a fetch.  The bot's permissions in the guild are those *)
(* at the time of the event.                                               *)
(*                                                                         *)
(* Specifications:                                                         *)
(*   Spec      one event at a time; findOrCreate returns any record.       *)
(*   SpecConc  two events in flight; nothing assumed of the first.         *)
(*   SpecCmd   LogSettingsCommand and the pipeline in turn on one store.   *)
(*   SpecRace  LogSettingsCommand and the pipeline interleaved.            *)
(***************************************************************************)
EXTENDS Integers, Sequences, FiniteSets, TLC

\* Longest audit log a fetch returns in this model.
MaxLogLen == 2

(***************************************************************************)
(* JavaScript values.  A nullable value is None or Some(v).                *)
(***************************************************************************)
None == << >>
Some(v) == << v >>

\* JavaScript truthiness of a number stored in a flag column (0 / 1).
TruthyFlag(v) == v # 0

\* JavaScript truthiness of a nullable string (null and "" are falsy).
TruthyString(o) == o # None /\ Len(o[1]) > 0

\* String.prototype.endsWith
EndsWith(s, suffix) ==
    /\ Len(suffix) <= Len(s)
    /\ SubSeq(s, Len(s) - Len(suffix) + 1, Len(s)) = suffix

\* String.prototype.includes
Includes(s, part) ==
    \E i \in 1..(Len(s) - Len(part) + 1) : SubSeq(s, i, i + Len(part) - 1) = part

(***************************************************************************)
(* The platform objects of one guild.                                      *)
(***************************************************************************)
GuildId == "900"

\* Users whose membership events arrive, and the moderators of audit entries.
UserIds == {"1", "2"}
ExecutorIds == {"3", "4"}

UserTag(id) ==
    CASE id = "1" -> "al#1"
      [] id = "2" -> "b_b#2"
      [] id = "3" -> "Mod#1"
      [] OTHER    -> "m*d#2"

UserName(id) ==
    CASE id = "1" -> "al"
      [] id = "2" -> "b_b"
      [] id = "3" -> "Mod"
      [] OTHER    -> "m*d"

User(id) == [id |-> id, tag |-> UserTag(id), username |-> UserName(id)]

Guild == [id |-> GuildId]

\* A GuildMember: member.id, member.user, member.nickname, member.guild.
Member(id, nickname) ==
    [id |-> id, user |-> User(id), nickname |-> nickname, guild |-> Guild]

Nicknames == {None, Some("nick"), Some("n~2")}

\* guild.channels.cache: channel id -> channel.
GuildChannels ==
    [c \in {"10", "11", "12", "14"} |->
        [id |-> c,
         type |-> IF c = "11" THEN "voice" ELSE "text",
         viewable |-> c # "14"]]

\* Collection.get: the channel, or undefined (None).
ChannelsCacheGet(id) ==
    IF id \in DOMAIN GuildChannels THEN Some(GuildChannels[id]) ELSE None

(***************************************************************************)
(* Audit log entries.  The target type of an action is the platform's      *)
(* (every MEMBER_* action targets a USER).                                 *)
(***************************************************************************)
AuditActions == {"MEMBER_KICK", "MEMBER_BAN_ADD", "MEMBER_BAN_REMOVE", "MEMBER_UPDATE"}

Reasons == {None, Some(""), Some("sp*m")}

AuditEntries ==
    [action : AuditActions,
     targetType : {"USER"},
     target : {[id |-> u] : u \in UserIds},
     executor : {User(x) : x \in ExecutorIds},
     reason : Reasons]

\* All sequences over S of length at most n.
SeqsUpTo(S, n) == UNION {[1..k -> S] : k \in 0..n}

\* What guild.fetchAuditLogs(options) can return, newest entry first:
\* every entry when no type is asked, entries of that type otherwise.
AuditLogs(type) ==
    SeqsUpTo({e \in AuditEntries : type = "ALL" \/ e.action = type}, MaxLogLen)

(***************************************************************************)
(* Utils.escapeMarkdown: a backslash before every markdown control         *)
(* character.                                                              *)
(***************************************************************************)
MarkdownChars == {"*", "_", "~", "|", "\\"}

RECURSIVE EscapeFrom(_, _)
EscapeFrom(s, i) ==
    IF i > Len(s) THEN ""
    ELSE LET c == SubSeq(s, i, i)
         IN  (IF c \in MarkdownChars THEN "\\" \o c ELSE c) \o EscapeFrom(s, i + 1)

escape(s) == EscapeFrom(s, 1)

(***************************************************************************)
(* LogsProcessor's static tables.                                          *)
(***************************************************************************)
EVENT_NAME_AUDIT_POSTFIX == "Audit"

\* The keys of #eventMessageRenderer: the events #handleLogEvents listens to.
RendererNames ==
    {"join", "left", "rename", "ban", "banAudit", "unban", "unbanAudit", "kick"}

\* The keys of #guildResolver.
GuildResolverNames ==
    {"join", "left", "rename", "ban", "banAudit", "unban", "unbanAudit", "kick"}

\* entry.reason?.length ? ` reason ${escape(entry.reason)}` : " no reason"
ReasonText(entry) ==
    IF TruthyString(entry.reason)
    THEN " reason " \o escape(entry.reason[1])
    ELSE " no reason"

\* prev.nickname ?? prev.user.username
DisplayName(member) ==
    IF member.nickname # None THEN member.nickname[1] ELSE member.user.username

\* #eventMessageRenderer[eventName](...args), eventName in RendererNames.
eventMessageRenderer(eventName, args) ==
    CASE eventName = "join" ->
            ":inbox_tray: [JOIN] | " \o escape("ID: " \o args[1].id)
                \o " | " \o escape(args[1].user.tag)
      [] eventName = "left" ->
            ":outbox_tray: [LEAVE] | " \o escape("ID: " \o args[1].id)
                \o " | " \o escape(args[1].user.tag)
      [] eventName = "rename" ->
            ":abc: [RENAME] | " \o escape("ID: " \o args[1].id) \o " | "
                \o escape(DisplayName(args[1])) \o " -> " \o escape(DisplayName(args[2]))
      [] eventName = "ban" ->
            ":hammer: [BAN] | " \o escape("ID: " \o args[2].id)
                \o " | " \o escape(args[2].tag)
      [] eventName = "banAudit" ->
            ":hammer: [BAN] by " \o escape(args[3].executor.tag) \o " with"
                \o ReasonText(args[3])
                \o " | " \o escape("ID: " \o args[2].id) \o " | " \o escape(args[2].tag)
      [] eventName = "unban" ->
            ":peace: [UNBAN] | " \o escape("ID: " \o args[2].id)
                \o " | " \o escape(args[2].tag)
      [] eventName = "unbanAudit" ->
            ":peace: [UNBAN] by " \o escape(args[3].executor.tag)
                \o " | " \o escape("ID: " \o args[2].id) \o " | " \o escape(args[2].tag)
      [] eventName = "kick" ->
            ":boot: [KICK] by " \o escape(args[2].executor.tag) \o " with"
                \o ReasonText(args[2])
                \o " | " \o escape("ID: " \o args[1].id) \o " "
                \o "| " \o escape(args[1].user.tag)

\* guildResolver taking the guild of every event from a member.
guildResolverFromMember(eventName, args) ==
    IF "guild" \in DOMAIN args[1] THEN Some(args[1].guild) ELSE None

\* #guildResolver[eventName](...args), eventName in GuildResolverNames:
\* member.guild of the first argument, or the first argument itself.
guildResolver(eventName, args) ==
    IF eventName \in {"join", "left", "rename", "kick"}
    THEN (IF "guild" \in DOMAIN args[1] THEN Some(args[1].guild) ELSE None)
    ELSE Some(args[1])

(***************************************************************************)
(* The guild's configuration record (GuildModel).  Flag columns hold 0 or  *)
(* 1 (LogSettingsCommand stores `state ? 1 : 0`), channel columns hold     *)
(* null or the digits of a channel id.                                     *)
(***************************************************************************)
FlagFields ==
    {"logs_enabled", "logs_join_event", "logs_left_event", "logs_rename_event",
     "logs_kick_event", "logs_ban_event"}

ChannelFields == {"logs_public_channel", "logs_private_channel"}

\* The records findOrCreate can return: "13" is the id of a channel that
\* the guild no longer has.
GuildRecords ==
    [logs_enabled : {0, 1},
     logs_join_event : {0, 1},
     logs_left_event : {0, 1},
     logs_rename_event : {0, 1},
     logs_kick_event : {0, 1},
     logs_ban_event : {0, 1},
     logs_public_channel : {None, Some("10"), Some("11"), Some("13")},
     logs_private_channel : {None, Some("12")}]

\* guildInstance[field] used as a condition: an absent column is undefined.
FlagOn(record, field) ==
    field \in FlagFields /\ TruthyFlag(record[field])

ChannelSet(record, field) ==
    field \in ChannelFields /\ TruthyString(record[field])

\* SettingsKey with kick notices governed by the key of `left`.
SettingsKeyKickAsLeft(eventName) ==
    LET stripped ==
            IF EndsWith(eventName, EVENT_NAME_AUDIT_POSTFIX)
            THEN SubSeq(eventName, 1, Len(eventName) - Len(EVENT_NAME_AUDIT_POSTFIX))
            ELSE eventName
    IN  IF stripped = "unban" THEN "ban"
        ELSE IF stripped = "kick" THEN "left" ELSE stripped

\* SettingsKey without the collapse of unban to ban.
SettingsKeyKeepingUnban(eventName) ==
    IF EndsWith(eventName, EVENT_NAME_AUDIT_POSTFIX)
    THEN SubSeq(eventName, 1, Len(eventName) - Len(EVENT_NAME_AUDIT_POSTFIX))
    ELSE eventName

\* #resolveChannel, lines 118-121: the settings key of an event name.
SettingsKey(eventName) ==
    LET stripped ==
            IF EndsWith(eventName, EVENT_NAME_AUDIT_POSTFIX)
            THEN SubSeq(eventName, 1, Len(eventName) - Len(EVENT_NAME_AUDIT_POSTFIX))
            ELSE eventName
    IN  IF stripped = "unban" THEN "ban" ELSE stripped

\* #resolveChannel, line 122.
ChannelType(key) ==
    IF key \in {"msgdelete", "msgimage", "msgupdate"} THEN "private" ELSE "public"

\* Declined without the check of the event's own flag.
DeclinedIgnoringEventFlag(record, key, channelType) ==
    \/ ~FlagOn(record, "logs_enabled")
    \/ ~ChannelSet(record, "logs_" \o channelType \o "_channel")

\* #resolveChannel, lines 123-128: whether null is returned.
Declined(record, key, channelType) ==
    \/ ~FlagOn(record, "logs_enabled")
    \/ ~FlagOn(record, "logs_" \o key \o "_event")
    \/ ~ChannelSet(record, "logs_" \o channelType \o "_channel")

\* #resolveChannel after the record is loaded: null (None) or the channel
\* the cache holds for the configured id (undefined, None, when it holds none).
ResolvedChannel(record, eventName) ==
    LET key == SettingsKey(eventName)
        channelType == ChannelType(key)
    IN  IF Declined(record, key, channelType)
        THEN None
        ELSE ChannelsCacheGet(record["logs_" \o channelType \o "_channel"][1])

(***************************************************************************)
(* The resolvers' decisions.                                               *)
(***************************************************************************)
\* What guild.me holds in a guild: with or without the audit log permission.
PermissionSets == {{"SEND_MESSAGES"}, {"SEND_MESSAGES", "VIEW_AUDIT_LOG"}}

\* guild.me.hasPermission(permission)
hasPermission(permissions, permission) == permission \in permissions

\* Collection.find: the first element of seq that is in matching, or
\* undefined (None).
Find(seq, matching) ==
    LET hits == {i \in 1..Len(seq) : seq[i] \in matching}
    IN  IF hits = {} THEN None
        ELSE Some(seq[CHOOSE i \in hits : \A j \in hits : i <= j])

\* MemberRemoveEntry taking the last matching entry instead of the first.
MemberRemoveEntryLast(log, memberId) ==
    LET hits == {i \in 1..Len(log) :
                    /\ log[i].action \in {"MEMBER_KICK", "MEMBER_BAN_ADD", "MEMBER_BAN_REMOVE"}
                    /\ log[i].targetType = "USER"
                    /\ log[i].target.id = memberId}
    IN  IF hits = {} THEN None
        ELSE Some(log[CHOOSE i \in hits : \A j \in hits : i >= j])

\* MemberRemoveEntry looking for kicks only.
MemberRemoveEntryKicksOnly(log, memberId) ==
    Find(log, {entry \in AuditEntries :
                /\ entry.action = "MEMBER_KICK"
                /\ entry.targetType = "USER"
                /\ entry.target.id = memberId})

\* #resolveMemberRemove, lines 62-65.
MemberRemoveEntry(log, memberId) ==
    Find(log, {entry \in AuditEntries :
                /\ entry.action \in {"MEMBER_KICK", "MEMBER_BAN_ADD", "MEMBER_BAN_REMOVE"}
                /\ entry.targetType = "USER"
                /\ entry.target.id = memberId})

\* #resolveBanManagementEvent, lines 82-84: the type asked of fetchAuditLogs.
BanLogType(eventName) ==
    "MEMBER_BAN_" \o (IF eventName = "ban" THEN "ADD" ELSE "REMOVE")

\* #resolveBanManagementEvent, line 85.
BanEntry(log, userId) ==
    Find(log, {entry \in AuditEntries :
                entry.targetType = "USER" /\ entry.target.id = userId})

\* NicknameChanged comparing the user names instead of the nicknames.
NicknameChangedByUsername(previousMember, currentMember) ==
    previousMember.user.username # currentMember.user.username

\* #resolveMemberUpdate, line 98.
NicknameChanged(previousMember, currentMember) ==
    previousMember.nickname # currentMember.nickname

(***************************************************************************)
(* State.  Each pipeline p processes one platform event at a time.         *)
(***************************************************************************)
Pipelines == {1}

VARIABLES
    pc,        \* pc[p]: where pipeline p is suspended, or idle / done / rejected
    raw,       \* raw[p]: the platform event p processes
    queries,   \* queries[p]: the fetchAuditLogs calls p made (the type asked)
    logs,      \* logs[p]: the log p's fetchAuditLogs was fulfilled with, until read
    emitted,   \* emitted[p]: the events p emitted on #emitter
    loaded,    \* loaded[p]: the record findOrCreate returned to p
    resolved,  \* resolved[p]: what #resolveChannel returned to p
    sent,      \* sent[p]: the channel.send calls p made
    failed,    \* failed[p]: the call whose promise was rejected, "" if none
    order,     \* the running pipelines' arrivals and send calls, oldest first
    store,     \* the guild's row of the configuration store, None if it has none
    cmd        \* the settings command being run

vars == << pc, raw, queries, logs, emitted, loaded, resolved, sent, failed,
           order, store, cmd >>

NoEvent ==
    [type |-> "none", id |-> "", partial |-> FALSE, permissions |-> {},
     previous |-> None, current |-> None]

RawEvent(type, id, partial, permissions, previous, current) ==
    [type |-> type, id |-> id, partial |-> partial, permissions |-> permissions,
     previous |-> previous, current |-> current]

\* No settings command is running.
NoCommand == [pc |-> "idle", args |-> << >>, error |-> ""]

Init ==
    /\ pc = [p \in Pipelines |-> "idle"]
    /\ raw = [p \in Pipelines |-> NoEvent]
    /\ queries = [p \in Pipelines |-> << >>]
    /\ logs = [p \in Pipelines |-> None]
    /\ emitted = [p \in Pipelines |-> << >>]
    /\ loaded = [p \in Pipelines |-> None]
    /\ resolved = [p \in Pipelines |-> None]
    /\ sent = [p \in Pipelines |-> << >>]
    /\ failed = [p \in Pipelines |-> ""]
    /\ order = << >>
    /\ store = None
    /\ cmd = NoCommand

(***************************************************************************)
(* #emitter.emit(eventName, ...args): the listener of #handleLogEvents     *)
(* runs #handleEvent, which runs #resolveChannel up to its await of        *)
(* findOrCreate (lines 112-113).  An event without listener is dropped; a  *)
(* guild that resolves to undefined throws at guild.id.                    *)
(***************************************************************************)
Emit(p, eventName, args) ==
    /\ emitted' = [emitted EXCEPT ![p] = Append(@, [name |-> eventName, args |-> args])]
    /\ IF eventName \notin RendererNames
       THEN pc' = [pc EXCEPT ![p] = "done"] /\ failed' = failed
       ELSE IF eventName \notin GuildResolverNames \/ guildResolver(eventName, args) = None
       THEN pc' = [pc EXCEPT ![p] = "rejected"]
            /\ failed' = [failed EXCEPT ![p] = "resolveChannel"]
       ELSE pc' = [pc EXCEPT ![p] = "findOrCreate"] /\ failed' = failed

\* GuildMemberAdd emitting `left` instead of `join`.
GuildMemberAddAsLeft(p, id) ==
    /\ pc[p] = "idle"
    /\ raw' = [raw EXCEPT ![p] = RawEvent("guildMemberAdd", id, FALSE, {}, None, None)]
    /\ Emit(p, "left", << Member(id, None) >>)
    /\ order' = Append(order, << p, "event" >>)
    /\ UNCHANGED << queries, logs, loaded, resolved, sent, store, cmd >>

\* client.on("guildMemberAdd", ...), line 44.
GuildMemberAdd(p, id) ==
    /\ pc[p] = "idle"
    /\ raw' = [raw EXCEPT ![p] = RawEvent("guildMemberAdd", id, FALSE, {}, None, None)]
    /\ Emit(p, "join", << Member(id, None) >>)
    /\ order' = Append(order, << p, "event" >>)
    /\ UNCHANGED << queries, logs, loaded, resolved, sent, store, cmd >>

\* MemberRemoveCheck without the permission check.
MemberRemoveCheckAlwaysFetching(p, id, permissions) ==
    /\ queries' = [queries EXCEPT ![p] = Append(@, "ALL")]
    /\ pc' = [pc EXCEPT ![p] = "fetchAuditLogs"]
    /\ UNCHANGED << emitted, failed >>

\* #resolveMemberRemove from line 59 on, up to the await of fetchAuditLogs.
MemberRemoveCheck(p, id, permissions) ==
    IF ~hasPermission(permissions, "VIEW_AUDIT_LOG")
    THEN Emit(p, "left", << Member(id, None) >>) /\ queries' = queries
    ELSE /\ queries' = [queries EXCEPT ![p] = Append(@, "ALL")]
         /\ pc' = [pc EXCEPT ![p] = "fetchAuditLogs"]
         /\ UNCHANGED << emitted, failed >>

\* client.on("guildMemberRemove", ...), line 45, and #resolveMemberRemove up
\* to its first await.
GuildMemberRemove(p, id, partial, permissions) ==
    /\ pc[p] = "idle"
    /\ raw' = [raw EXCEPT ![p] =
                 RawEvent("guildMemberRemove", id, partial, permissions, None, None)]
    /\ IF partial
       THEN /\ pc' = [pc EXCEPT ![p] = "memberFetch"]
            /\ UNCHANGED << queries, emitted, failed >>
       ELSE MemberRemoveCheck(p, id, permissions)
    /\ order' = Append(order, << p, "event" >>)
    /\ UNCHANGED << logs, loaded, resolved, sent, store, cmd >>

\* member.fetch() resolved (line 58): the member is complete.
MemberFetchResolve(p) ==
    /\ pc[p] = "memberFetch"
    /\ raw' = [raw EXCEPT ![p].partial = FALSE]
    /\ MemberRemoveCheck(p, raw[p].id, raw[p].permissions)
    /\ UNCHANGED << logs, loaded, resolved, sent, order, store, cmd >>

\* member.fetch() rejected: #resolveMemberRemove ends with that rejection.
MemberFetchReject(p) ==
    /\ pc[p] = "memberFetch"
    /\ pc' = [pc EXCEPT ![p] = "rejected"]
    /\ failed' = [failed EXCEPT ![p] = "member.fetch"]
    /\ UNCHANGED << raw, queries, logs, emitted, loaded, resolved, sent,
                    order, store, cmd >>

\* client.on("guildBanAdd" / "guildBanRemove", ...), lines 47-48, and
\* #resolveBanManagementEvent up to its await (lines 80-84).
GuildBan(p, eventName, id, permissions) ==
    /\ pc[p] = "idle"
    /\ raw' = [raw EXCEPT ![p] =
                 RawEvent(IF eventName = "ban" THEN "guildBanAdd" ELSE "guildBanRemove",
                          id, FALSE, permissions, None, None)]
    /\ IF ~hasPermission(permissions, "VIEW_AUDIT_LOG")
       THEN Emit(p, eventName, << Guild, User(id) >>) /\ queries' = queries
       ELSE /\ queries' = [queries EXCEPT ![p] = Append(@, BanLogType(eventName))]
            /\ pc' = [pc EXCEPT ![p] = "fetchAuditLogs"]
            /\ UNCHANGED << emitted, failed >>
    /\ order' = Append(order, << p, "event" >>)
    /\ UNCHANGED << logs, loaded, resolved, sent, store, cmd >>

GuildBanAdd(p, id, permissions) == GuildBan(p, "ban", id, permissions)

GuildBanRemove(p, id, permissions) == GuildBan(p, "unban", id, permissions)

\* fetchAuditLogs is fulfilled with one of answers: the value the await of
\* line 61 or 82 yields.
FetchAuditLogsFulfilFrom(p, answers) ==
    /\ pc[p] = "fetchAuditLogs"
    /\ pc' = [pc EXCEPT ![p] = "logsFetched"]
    /\ \E log \in answers : logs' = [logs EXCEPT ![p] = Some(log)]
    /\ UNCHANGED << raw, queries, emitted, loaded, resolved, sent, failed,
                    order, store, cmd >>

\* fetchAuditLogs is fulfilled with any log the type asked allows.
FetchAuditLogsFulfil(p) ==
    FetchAuditLogsFulfilFrom(p, AuditLogs(queries[p][Len(queries[p])]))

\* The resolver resumes with the fetched log: #resolveMemberRemove lines
\* 62-70, or #resolveBanManagementEvent lines 85-88.
ResolveWithLogs(p) ==
    /\ pc[p] = "logsFetched"
    /\ logs' = [logs EXCEPT ![p] = None]
    /\ IF raw[p].type = "guildMemberRemove"
       THEN LET member == Member(raw[p].id, None)
                entry == MemberRemoveEntry(logs[p][1], member.id)
            IN  IF entry = None
                THEN Emit(p, "left", << member >>)
                ELSE IF entry[1].action = "MEMBER_KICK"
                THEN Emit(p, "kick", << member, entry[1] >>)
                ELSE /\ pc' = [pc EXCEPT ![p] = "done"]
                     /\ UNCHANGED << emitted, failed >>
       ELSE LET eventName == IF raw[p].type = "guildBanAdd" THEN "ban" ELSE "unban"
                user == User(raw[p].id)
                entry == BanEntry(logs[p][1], user.id)
            IN  IF entry = None
                THEN Emit(p, eventName, << Guild, user >>)
                ELSE Emit(p, eventName \o EVENT_NAME_AUDIT_POSTFIX,
                          << Guild, user, entry[1] >>)
    /\ UNCHANGED << raw, queries, loaded, resolved, sent, order, store, cmd >>

\* fetchAuditLogs rejected: the resolver ends with that rejection.
FetchAuditLogsReject(p) ==
    /\ pc[p] = "fetchAuditLogs"
    /\ pc' = [pc EXCEPT ![p] = "rejected"]
    /\ failed' = [failed EXCEPT ![p] = "fetchAuditLogs"]
    /\ UNCHANGED << raw, queries, logs, emitted, loaded, resolved, sent,
                    order, store, cmd >>

\* client.on("guildMemberUpdate", ...), line 46, and #resolveMemberUpdate.
GuildMemberUpdate(p, id, previous, current) ==
    /\ pc[p] = "idle"
    /\ raw' = [raw EXCEPT ![p] =
                 RawEvent("guildMemberUpdate", id, FALSE, {}, previous, current)]
    /\ IF NicknameChanged(Member(id, previous), Member(id, current))
       THEN Emit(p, "rename", << Member(id, previous), Member(id, current) >>)
       ELSE /\ pc' = [pc EXCEPT ![p] = "done"]
            /\ UNCHANGED << emitted, failed >>
    /\ order' = Append(order, << p, "event" >>)
    /\ UNCHANGED << queries, logs, loaded, resolved, sent, store, cmd >>

\* HandleWithRecord without the check of the channel's type.
HandleWithRecordAnyChannelType(p, record) ==
    LET event == emitted[p][Len(emitted[p])]
        channel == ResolvedChannel(record, event.name)
    IN  /\ loaded' = [loaded EXCEPT ![p] = Some(record)]
        /\ resolved' = [resolved EXCEPT ![p] =
                          Some([key |-> SettingsKey(event.name),
                                channel |-> channel])]
        /\ IF channel = None
           THEN pc' = [pc EXCEPT ![p] = "done"] /\ sent' = sent /\ order' = order
           ELSE /\ sent' = [sent EXCEPT ![p] =
                              Append(@, [channel |-> channel[1].id,
                                         content |->
                                             eventMessageRenderer(event.name,
                                                                  event.args)])]
                /\ order' = Append(order, << p, "send" >>)
                /\ pc' = [pc EXCEPT ![p] = "send"]

\* The rest of #resolveChannel (lines 118-129) and of #handleEvent (lines
\* 151-156), up to the await of send, once findOrCreate returned record.
HandleWithRecord(p, record) ==
    LET event == emitted[p][Len(emitted[p])]
        channel == ResolvedChannel(record, event.name)
    IN  /\ loaded' = [loaded EXCEPT ![p] = Some(record)]
        /\ resolved' = [resolved EXCEPT ![p] =
                          Some([key |-> SettingsKey(event.name),
                                channel |-> channel])]
        /\ IF channel = None \/ channel[1].type # "text"
           THEN pc' = [pc EXCEPT ![p] = "done"] /\ sent' = sent /\ order' = order
           ELSE /\ sent' = [sent EXCEPT ![p] =
                              Append(@, [channel |-> channel[1].id,
                                         content |->
                                             eventMessageRenderer(event.name,
                                                                  event.args)])]
                /\ order' = Append(order, << p, "send" >>)
                /\ pc' = [pc EXCEPT ![p] = "send"]

\* findOrCreate resolved, the store being the environment's: the record it
\* returns is one of records.
FindOrCreateResolveFrom(p, records) ==
    /\ pc[p] = "findOrCreate"
    /\ \E record \in records : HandleWithRecord(p, record)
    /\ UNCHANGED << raw, queries, logs, emitted, failed, store, cmd >>

\* findOrCreate resolved with any record.
FindOrCreateResolve(p) == FindOrCreateResolveFrom(p, GuildRecords)

\* findOrCreate rejected: #handleEvent ends with that rejection.
FindOrCreateReject(p) ==
    /\ pc[p] = "findOrCreate"
    /\ pc' = [pc EXCEPT ![p] = "rejected"]
    /\ failed' = [failed EXCEPT ![p] = "findOrCreate"]
    /\ UNCHANGED << raw, queries, logs, emitted, loaded, resolved, sent,
                    order, store, cmd >>

\* SendResolve held back while the pipeline of an earlier slot is suspended.
SendResolveAfterEarlier(p) ==
    /\ pc[p] = "send"
    /\ \A q \in DOMAIN pc : q < p => pc[q] \in {"idle", "done", "rejected"}
    /\ pc' = [pc EXCEPT ![p] = "done"]
    /\ UNCHANGED << raw, queries, logs, emitted, loaded, resolved, sent, failed,
                    order, store, cmd >>

\* channel.send resolved (line 156): #handleEvent returns.
SendResolve(p) ==
    /\ pc[p] = "send"
    /\ pc' = [pc EXCEPT ![p] = "done"]
    /\ UNCHANGED << raw, queries, logs, emitted, loaded, resolved, sent, failed,
                    order, store, cmd >>

\* SendReject calling send once more.
SendRejectRetrying(p) ==
    /\ pc[p] = "send"
    /\ sent' = [sent EXCEPT ![p] = Append(@, sent[p][Len(sent[p])])]
    /\ order' = Append(order, << p, "send" >>)
    /\ UNCHANGED << pc, raw, queries, logs, emitted, loaded, resolved, failed,
                    store, cmd >>

\* channel.send rejected: #handleEvent ends with that rejection.
SendReject(p) ==
    /\ pc[p] = "send"
    /\ pc' = [pc EXCEPT ![p] = "rejected"]
    /\ failed' = [failed EXCEPT ![p] = "send"]
    /\ UNCHANGED << raw, queries, logs, emitted, loaded, resolved, sent,
                    order, store, cmd >>

\* The pipeline is over; the client delivers the next event.
NextEvent(p) ==
    /\ pc[p] \in {"done", "rejected"}
    /\ pc' = [pc EXCEPT ![p] = "idle"]
    /\ raw' = [raw EXCEPT ![p] = NoEvent]
    /\ queries' = [queries EXCEPT ![p] = << >>]
    /\ logs' = [logs EXCEPT ![p] = None]
    /\ emitted' = [emitted EXCEPT ![p] = << >>]
    /\ loaded' = [loaded EXCEPT ![p] = None]
    /\ resolved' = [resolved EXCEPT ![p] = None]
    /\ sent' = [sent EXCEPT ![p] = << >>]
    /\ failed' = [failed EXCEPT ![p] = ""]
    /\ order' = LET others(step) == step[1] # p IN SelectSeq(order, others)
    /\ UNCHANGED << store, cmd >>

Next ==
    \E p \in Pipelines :
        \/ \E id \in UserIds : GuildMemberAdd(p, id)
        \/ \E id \in UserIds, partial \in BOOLEAN, permissions \in PermissionSets :
              GuildMemberRemove(p, id, partial, permissions)
        \/ MemberFetchResolve(p)
        \/ MemberFetchReject(p)
        \/ \E id \in UserIds, permissions \in PermissionSets :
              GuildBanAdd(p, id, permissions)
        \/ \E id \in UserIds, permissions \in PermissionSets :
              GuildBanRemove(p, id, permissions)
        \/ FetchAuditLogsFulfil(p)
        \/ ResolveWithLogs(p)
        \/ FetchAuditLogsReject(p)
        \/ \E id \in UserIds, previous \in Nicknames, current \in Nicknames :
              GuildMemberUpdate(p, id, previous, current)
        \/ FindOrCreateResolve(p)
        \/ FindOrCreateReject(p)
        \/ SendResolve(p)
        \/ SendReject(p)
        \/ NextEvent(p)

Spec == Init /\ [][Next]_vars

(***************************************************************************)
(* Two events in flight.  The client calls its listeners one event after   *)
(* the other, and each listener returns at its first await, so the         *)
(* pipelines of two events interleave at their awaits.  The inputs are     *)
(* narrowed to one member, the logs that decide between left, kick and     *)
(* the with-cause kinds, and the records that deliver or decline.          *)
(***************************************************************************)
Pipelines2 == {1, 2}

\* The member whose events arrive.
ConcUserId == "1"

\* Logs of at most one entry, a kick, ban or unban of that member by one
\* executor, without reason.
ConcAuditLogs(type) ==
    {log \in SeqsUpTo({entry \in AuditEntries :
                          /\ type = "ALL" \/ entry.action = type
                          /\ entry.action # "MEMBER_UPDATE"
                          /\ entry.target.id = ConcUserId
                          /\ entry.executor.id = "3"
                          /\ entry.reason = None}, MaxLogLen) :
        Len(log) <= 1}

\* Records with every flag on, and the public channel set or not.
ConcRecords ==
    {record \in GuildRecords :
        /\ \A field \in FlagFields : record[field] = 1
        /\ record.logs_public_channel \in {None, Some("10")}
        /\ record.logs_private_channel = None}

InitConc ==
    /\ pc = [p \in Pipelines2 |-> "idle"]
    /\ raw = [p \in Pipelines2 |-> NoEvent]
    /\ queries = [p \in Pipelines2 |-> << >>]
    /\ logs = [p \in Pipelines2 |-> None]
    /\ emitted = [p \in Pipelines2 |-> << >>]
    /\ loaded = [p \in Pipelines2 |-> None]
    /\ resolved = [p \in Pipelines2 |-> None]
    /\ sent = [p \in Pipelines2 |-> << >>]
    /\ failed = [p \in Pipelines2 |-> ""]
    /\ order = << >>
    /\ store = None
    /\ cmd = NoCommand

\* The steps by which pipeline p goes on when the promise it awaits is
\* fulfilled.
Fulfilled(p) ==
    \/ MemberFetchResolve(p)
    \/ FetchAuditLogsFulfilFrom(p, ConcAuditLogs(queries[p][Len(queries[p])]))
    \/ ResolveWithLogs(p)
    \/ FindOrCreateResolveFrom(p, ConcRecords)
    \/ SendResolve(p)

NextConc ==
    \E p \in Pipelines2 :
        \/ GuildMemberAdd(p, ConcUserId)
        \/ \E partial \in BOOLEAN, permissions \in PermissionSets :
              GuildMemberRemove(p, ConcUserId, partial, permissions)
        \/ \E permissions \in PermissionSets : GuildBanAdd(p, ConcUserId, permissions)
        \/ \E permissions \in PermissionSets : GuildBanRemove(p, ConcUserId, permissions)
        \/ \E current \in {None, Some("nick")} :
              GuildMemberUpdate(p, ConcUserId, None, current)
        \/ MemberFetchResolve(p)
        \/ MemberFetchReject(p)
        \/ FetchAuditLogsFulfilFrom(p, ConcAuditLogs(queries[p][Len(queries[p])]))
        \/ ResolveWithLogs(p)
        \/ FetchAuditLogsReject(p)
        \/ FindOrCreateResolveFrom(p, ConcRecords)
        \/ FindOrCreateReject(p)
        \/ SendResolve(p)
        \/ SendReject(p)
        \/ NextEvent(p)

\* Nothing is assumed of pipeline 1, whose promises may stay pending for
\* ever; the promises pipeline 2 awaits are fulfilled unless they are rejected.
SpecConc == InitConc /\ [][NextConc]_vars /\ WF_vars(Fulfilled(2))

(***************************************************************************)
(* LogSettingsCommand: `log`, with the arguments its validators let        *)
(* through (at most two, the first one of enable, disable, private,        *)
(* public).  run() goes to its one await, of guildInstance.save() or of    *)
(* Guild.update, or returns or throws before it.                           *)
(***************************************************************************)
\* The keys of logTypesInvertedMap.
LogTypeCodes ==
    {"join", "left", "rename", "kick", "ban", "msg_delete", "msg_image", "msg_update"}

\* logTypesInvertedMap with `left` mapped to the column of `join`.
logTypesInvertedMapLeftAsJoin(settingCode) ==
    CASE settingCode = "join"       -> "logs_join_event"
      [] settingCode = "left"       -> "logs_join_event"
      [] settingCode = "rename"     -> "logs_rename_event"
      [] settingCode = "kick"       -> "logs_kick_event"
      [] settingCode = "ban"        -> "logs_ban_event"
      [] settingCode = "msg_delete" -> "logs_msgdelete_event"
      [] settingCode = "msg_image"  -> "logs_msgimage_event"
      [] settingCode = "msg_update" -> "logs_msgupdate_event"

logTypesInvertedMap(settingCode) ==
    CASE settingCode = "join"       -> "logs_join_event"
      [] settingCode = "left"       -> "logs_left_event"
      [] settingCode = "rename"     -> "logs_rename_event"
      [] settingCode = "kick"       -> "logs_kick_event"
      [] settingCode = "ban"        -> "logs_ban_event"
      [] settingCode = "msg_delete" -> "logs_msgdelete_event"
      [] settingCode = "msg_image"  -> "logs_msgimage_event"
      [] settingCode = "msg_update" -> "logs_msgupdate_event"

Digits == {"0", "1", "2", "3", "4", "5", "6", "7", "8", "9"}

\* /(\d+)/.exec(s)?.[0] ?? null: the first run of digits of s.
FirstDigits(s) ==
    LET starts == {i \in 1..Len(s) : SubSeq(s, i, i) \in Digits}
    IN  IF starts = {} THEN None
        ELSE LET from == CHOOSE i \in starts : \A j \in starts : i <= j
                 ends == {k \in from..Len(s) :
                             \A j \in from..k : SubSeq(s, j, j) \in Digits}
                 to == CHOOSE k \in ends : \A j \in ends : j <= k
             IN  Some(SubSeq(s, from, to))

\* What run() comes to before its await: it returns the settings shown, it
\* throws, or it has a column of the guild's row to write.
Shown == [kind |-> "show", error |-> "", field |-> "", value |-> None]

Threw(message) == [kind |-> "throw", error |-> message, field |-> "", value |-> None]

Writes(field, value) == [kind |-> "write", error |-> "", field |-> field, value |-> value]

\* toggleLogging(state), lines 167-170.
toggleLogging(state) == Writes("logs_enabled", IF state THEN 1 ELSE 0)

\* toggleSetting(settingCode, state), lines 103-109.
toggleSetting(settingCode, state) ==
    IF settingCode \notin LogTypeCodes
    THEN Threw("Incorrect setting code passed!")
    ELSE Writes(logTypesInvertedMap(settingCode), IF state THEN 1 ELSE 0)

\* setLogChannel without the test of line 139 that the bot can view the
\* channel.
setLogChannelUnviewed(type, channelID) ==
    IF type \notin {"public", "private"}
    THEN Threw("Incorrect channel type for logs!")
    ELSE IF channelID = None
    THEN Writes("logs_" \o type \o "_channel", None)
    ELSE LET id == FirstDigits(channelID[1])
         IN  IF id = None
             THEN Threw("Incorrect channel ID passed! This argument must contains Channel ID!")
             ELSE LET targetChannel == ChannelsCacheGet(id[1])
                  IN  IF targetChannel = None \/ targetChannel[1].type # "text"
                      THEN Threw("This channel is not exist or it is not viewable by bot!")
                      ELSE Writes("logs_" \o type \o "_channel", id)

\* setLogChannel(type, channelID), lines 129-148; channelID is None for null.
setLogChannel(type, channelID) ==
    IF type \notin {"public", "private"}
    THEN Threw("Incorrect channel type for logs!")
    ELSE IF channelID = None
    THEN Writes("logs_" \o type \o "_channel", None)
    ELSE LET id == FirstDigits(channelID[1])
         IN  IF id = None
             THEN Threw("Incorrect channel ID passed! This argument must contains Channel ID!")
             ELSE LET targetChannel == ChannelsCacheGet(id[1])
                  IN  IF \/ targetChannel = None
                         \/ targetChannel[1].type # "text"
                         \/ ~targetChannel[1].viewable
                      THEN Threw("This channel is not exist or it is not viewable by bot!")
                      ELSE Writes("logs_" \o type \o "_channel", id)

\* resetLogChannel(), lines 93-95.
resetLogChannel(args) == setLogChannel(args[1], None)

\* run(), lines 8-23.
run(args) ==
    IF Len(args) = 0 THEN Shown
    ELSE IF Len(args) = 1 /\ args[1] \in {"enable", "disable"}
    THEN toggleLogging(args[1] = "enable")
    ELSE IF Len(args) = 1 /\ args[1] \in {"public", "private"}
    THEN resetLogChannel(args)
    ELSE IF Len(args) = 2 /\ args[1] \in {"enable", "disable"}
    THEN toggleSetting(args[2], args[1] = "enable")
    ELSE IF Len(args) = 2 /\ args[1] \in {"public", "private"}
    THEN setLogChannel(args[1], Some(args[2]))
    ELSE Threw("Incorrect command usage!")

\* validators.arguments: the values of the first argument.
FirstArguments == {"enable", "disable", "private", "public"}

\* Second arguments: feature codes, one the maps do not hold, `all`; and
\* channel mentions or ids (a text channel, a voice channel, a text channel,
\* none, a text channel the bot cannot view) and a name without digits.
SecondArguments ==
    {"join", "left", "rename", "kick", "ban", "msg_delete", "unban", "all",
     "<#10>", "11", "12", "13", "14", "general"}

CommandArguments ==
    {<< >>} \cup {<< first >> : first \in FirstArguments}
            \cup {<< first, second >> : first \in FirstArguments,
                                        second \in SecondArguments}

\* The row a findOrCreate makes for a guild that has none: every feature off.
DefaultRecord ==
    [logs_enabled |-> 0, logs_join_event |-> 0, logs_left_event |-> 0,
     logs_rename_event |-> 0, logs_kick_event |-> 0, logs_ban_event |-> 0,
     logs_public_channel |-> None, logs_private_channel |-> None]

\* The row after value is written to its column field; the columns of the
\* message features, which no pipeline reads, are not part of the rows here.
Saved(record, field, value) ==
    IF field \in DOMAIN record THEN [record EXCEPT ![field] = value] ELSE record

\* MessageProcessor.#handleMention, lines 42-46: a mention of the bot makes
\* the guild's row if it has none.
HandleMention ==
    /\ store = None
    /\ store' = Some(DefaultRecord)
    /\ UNCHANGED << pc, raw, queries, logs, emitted, loaded, resolved, sent, failed,
                    order, cmd >>

\* run() up to its await.  The command works on the database instance of the
\* guild its context holds (lines 107, 168): the guild has its row.
CommandRun(args) ==
    /\ cmd.pc = "idle"
    /\ store # None
    /\ cmd' = [pc |-> CASE run(args).kind = "write" -> "save"
                       [] run(args).kind = "throw" -> "failed"
                       [] OTHER -> "done",
               args |-> args,
               error |-> run(args).error]
    /\ UNCHANGED << pc, raw, queries, logs, emitted, loaded, resolved, sent, failed,
                    order, store >>

\* guildInstance.save() (lines 109, 170) or Guild.update (lines 142-148)
\* resolved: the column is written, the command returns its reply.
CommandSaveResolve ==
    /\ cmd.pc = "save"
    /\ store' = Some(Saved(store[1], run(cmd.args).field, run(cmd.args).value))
    /\ cmd' = [cmd EXCEPT !.pc = "done"]
    /\ UNCHANGED << pc, raw, queries, logs, emitted, loaded, resolved, sent, failed,
                    order >>

\* The write was rejected: run() ends with that rejection, nothing written.
CommandSaveReject ==
    /\ cmd.pc = "save"
    /\ cmd' = [cmd EXCEPT !.pc = "failed", !.error = "save"]
    /\ UNCHANGED << pc, raw, queries, logs, emitted, loaded, resolved, sent, failed,
                    order, store >>

\* The command is over; the next message may be a command.
NextCommand ==
    /\ cmd.pc \in {"done", "failed"}
    /\ cmd' = NoCommand
    /\ UNCHANGED << pc, raw, queries, logs, emitted, loaded, resolved, sent, failed,
                    order, store >>

\* FindOrCreateStored writing the default row over the one the guild has.
FindOrCreateStoredReplacing(p) ==
    /\ pc[p] = "findOrCreate"
    /\ HandleWithRecord(p, DefaultRecord)
    /\ store' = Some(DefaultRecord)
    /\ UNCHANGED << raw, queries, logs, emitted, failed, cmd >>

\* FindOrCreateStored taking every flag of the row for set.
FindOrCreateStoredFlagsOn(p) ==
    /\ pc[p] = "findOrCreate"
    /\ LET record == IF store = None THEN DefaultRecord ELSE store[1]
       IN  /\ HandleWithRecord(p, [field \in DOMAIN record |->
                                     IF field \in FlagFields THEN 1 ELSE record[field]])
           /\ store' = Some(record)
    /\ UNCHANGED << raw, queries, logs, emitted, failed, cmd >>

\* findOrCreate resolved (lines 113-117): the guild's row, made with every
\* feature off if the guild had none.
FindOrCreateStored(p) ==
    /\ pc[p] = "findOrCreate"
    /\ LET record == IF store = None THEN DefaultRecord ELSE store[1]
       IN  HandleWithRecord(p, record) /\ store' = Some(record)
    /\ UNCHANGED << raw, queries, logs, emitted, failed, cmd >>

(***************************************************************************)
(* The settings command and the pipeline on one store.  The events are     *)
(* those of one member, with the logs and nicknames that produce each of   *)
(* the eight event names.                                                  *)
(***************************************************************************)
\* A platform event arrives for pipeline p.
Arrival(p) ==
    \/ GuildMemberAdd(p, ConcUserId)
    \/ \E partial \in BOOLEAN, permissions \in PermissionSets :
          GuildMemberRemove(p, ConcUserId, partial, permissions)
    \/ \E permissions \in PermissionSets : GuildBanAdd(p, ConcUserId, permissions)
    \/ \E permissions \in PermissionSets : GuildBanRemove(p, ConcUserId, permissions)
    \/ \E current \in {None, Some("nick")} :
          GuildMemberUpdate(p, ConcUserId, None, current)

\* Pipeline p goes on from an await, its configuration read from the store.
Progress(p) ==
    \/ MemberFetchResolve(p)
    \/ MemberFetchReject(p)
    \/ FetchAuditLogsFulfilFrom(p, ConcAuditLogs(queries[p][Len(queries[p])]))
    \/ ResolveWithLogs(p)
    \/ FetchAuditLogsReject(p)
    \/ FindOrCreateStored(p)
    \/ FindOrCreateReject(p)
    \/ SendResolve(p)
    \/ SendReject(p)
    \/ NextEvent(p)

\* Commands and events in turn: a command is run while no event is being
\* processed, an event arrives while no command is running.
NextCmd ==
    \/ HandleMention
    \/ \E args \in CommandArguments :
          (\A p \in Pipelines : pc[p] = "idle") /\ CommandRun(args)
    \/ CommandSaveResolve
    \/ CommandSaveReject
    \/ NextCommand
    \/ \E p \in Pipelines : cmd.pc = "idle" /\ Arrival(p)
    \/ \E p \in Pipelines : Progress(p)

SpecCmd == Init /\ [][NextCmd]_vars

\* The commands of the master flag, of the kick and left features and of the
\* public channel.
RaceArguments ==
    {<< "enable" >>, << "disable" >>, << "public" >>,
     << "enable", "kick" >>, << "disable", "kick" >>,
     << "enable", "left" >>, << "disable", "left" >>,
     << "public", "<#10>" >>, << "public", "12" >>}

\* A member is removed: the pipeline comes to `left` or `kick`.
RaceArrival(p) ==
    \E partial \in BOOLEAN, permissions \in PermissionSets :
        GuildMemberRemove(p, ConcUserId, partial, permissions)

\* Commands and events at any time: the command's write and the pipeline's
\* load and send interleave freely.
NextRace ==
    \/ HandleMention
    \/ \E args \in RaceArguments : CommandRun(args)
    \/ CommandSaveResolve
    \/ CommandSaveReject
    \/ NextCommand
    \/ \E p \in Pipelines : RaceArrival(p)
    \/ \E p \in Pipelines : Progress(p)

SpecRace == Init /\ [][NextRace]_vars

(***************************************************************************)
(* Properties.                                                             *)
(***************************************************************************)
\* The event pipeline p handles: the last one it emitted.
HandledEvent(p) == emitted[p][Len(emitted[p])]

Terminated(p) == pc[p] \in {"done", "rejected"}

\* The flag column that governs an event name, written out per name.
GoverningFlag(eventName) ==
    CASE eventName = "join"   -> "logs_join_event"
      [] eventName = "left"   -> "logs_left_event"
      [] eventName = "rename" -> "logs_rename_event"
      [] eventName = "kick"   -> "logs_kick_event"
      [] eventName \in {"ban", "banAudit", "unban", "unbanAudit"} -> "logs_ban_event"

(* C1: whenever, in the record a pipeline loaded, the master flag is off,  *)
(* or the flag governing the handled event is off, or no public (general)  *)
(* channel is configured, #resolveChannel returned no channel and the      *)
(* pipeline sent nothing; this covers a kick whose kick flag is off.       *)
C1_DeclinedSendsNothing ==
    \A p \in Pipelines :
        loaded[p] # None =>
            LET record == loaded[p][1]
            IN  (\/ record.logs_enabled = 0
                 \/ record[GoverningFlag(HandledEvent(p).name)] = 0
                 \/ record.logs_public_channel = None)
                => /\ resolved[p] # None
                   /\ resolved[p][1].channel = None
                   /\ sent[p] = << >>
                   /\ pc[p] = "done"

C1_Witness ==
    \E p \in Pipelines :
        /\ pc[p] = "done"
        /\ raw[p].type = "guildMemberRemove"
        /\ emitted[p] # << >>
        /\ HandledEvent(p).name = "kick"
        /\ loaded[p] # None
        /\ loaded[p][1].logs_enabled = 1
        /\ loaded[p][1].logs_kick_event = 0
        /\ loaded[p][1].logs_left_event = 1
        /\ loaded[p][1].logs_public_channel = Some("10")
        /\ sent[p] = << >>

\* The loaded record lets a notice of the handled event through to a text
\* channel the guild has.
Deliverable(p) ==
    /\ loaded[p] # None
    /\ loaded[p][1].logs_enabled = 1
    /\ loaded[p][1][GoverningFlag(HandledEvent(p).name)] = 1
    /\ loaded[p][1].logs_public_channel # None
    /\ \E c \in DOMAIN GuildChannels :
          /\ loaded[p][1].logs_public_channel = Some(c)
          /\ GuildChannels[c].type = "text"

(* C2: a guildMemberAdd pipeline never sends more than one notice; once    *)
(* the configuration load is over it has sent exactly one, the join line,  *)
(* to the configured public channel if the loaded record has the master    *)
(* and join flags on and a public channel that is a text channel of the    *)
(* guild, and none otherwise (also when the load failed).                  *)
C2_JoinNotice ==
    \A p \in Pipelines :
        raw[p].type = "guildMemberAdd" =>
            /\ Len(emitted[p]) = 1
            /\ HandledEvent(p).name = "join"
            /\ Len(sent[p]) <= 1
            /\ pc[p] = "findOrCreate" => sent[p] = << >>
            /\ pc[p] # "findOrCreate" => (Len(sent[p]) = 1 <=> Deliverable(p))
            /\ sent[p] # << >> =>
                  /\ Some(sent[p][1].channel) = loaded[p][1].logs_public_channel
                  /\ Includes(sent[p][1].content, "[JOIN]")
                  /\ Includes(sent[p][1].content, "ID: " \o raw[p].id)

C2_Witness ==
    \E p \in Pipelines :
        /\ raw[p].type = "guildMemberAdd"
        /\ pc[p] = "done"
        /\ Len(sent[p]) = 1
        /\ sent[p][1].channel = "10"

(* C3: in a guildMemberRemove pipeline of a guild where the bot lacks      *)
(* VIEW_AUDIT_LOG, fetchAuditLogs is never called, every emitted event is  *)
(* `left`, and once the member is complete exactly one `left` is emitted.  *)
C3_NoPermissionLeft ==
    \A p \in Pipelines :
        (raw[p].type = "guildMemberRemove" /\ "VIEW_AUDIT_LOG" \notin raw[p].permissions)
        => /\ queries[p] = << >>
           /\ logs[p] = None
           /\ \A i \in 1..Len(emitted[p]) : emitted[p][i].name = "left"
           /\ (pc[p] # "memberFetch" /\ failed[p] # "member.fetch")
                 => emitted[p] = << [name |-> "left",
                                     args |-> << Member(raw[p].id, None) >>] >>

C3_Witness ==
    \E p \in Pipelines :
        /\ raw[p].type = "guildMemberRemove"
        /\ "VIEW_AUDIT_LOG" \notin raw[p].permissions
        /\ pc[p] = "done"
        /\ Len(emitted[p]) = 1
        /\ HandledEvent(p).name = "left"
        /\ queries[p] = << >>

\* Entry is a kick, or a ban / unban, of user id.
IsKickOf(entry, id) == entry.action = "MEMBER_KICK" /\ entry.target.id = id

IsBanOf(entry, id) ==
    entry.action \in {"MEMBER_BAN_ADD", "MEMBER_BAN_REMOVE"} /\ entry.target.id = id

\* No kick, ban or unban of user id stands before position i of log.
FirstOf(log, id, i) ==
    \A j \in 1..(i - 1) : ~IsKickOf(log[j], id) /\ ~IsBanOf(log[j], id)

\* Pipeline p's resolver takes its step with the log it fetched.
ResumesWithLogs(p) == pc[p] = "logsFetched" /\ pc'[p] # "logsFetched"

(* C4 as claimed: whenever the fetched log holds a kick entry of the       *)
(* removed member, whatever else it holds, `kick` is emitted carrying a    *)
(* kick entry of that member, and the rendered line contains the entry's   *)
(* executor tag.                                                           *)
C4_Original ==
    /\ [][\A p \in Pipelines :
            (/\ ResumesWithLogs(p)
             /\ raw[p].type = "guildMemberRemove"
             /\ \E i \in 1..Len(logs[p][1]) : IsKickOf(logs[p][1][i], raw[p].id))
            => \E i \in 1..Len(logs[p][1]) :
                  /\ IsKickOf(logs[p][1][i], raw[p].id)
                  /\ emitted'[p] = << [name |-> "kick",
                                       args |-> << Member(raw[p].id, None),
                                                   logs[p][1][i] >>] >>]_vars
    /\ [](\A p \in Pipelines :
            (sent[p] # << >> /\ HandledEvent(p).name = "kick")
            => Includes(sent[p][1].content, HandledEvent(p).args[2].executor.tag))

(* C4 as amended: when the first entry of the fetched log that is a kick,  *)
(* ban or unban of the removed member is a kick, `kick` is emitted once,   *)
(* carrying that entry, and the line sent for it contains the entry's      *)
(* executor tag as escapeMarkdown writes it.                               *)
C4_FirstMatchKick ==
    /\ [][\A p \in Pipelines :
            (ResumesWithLogs(p) /\ raw[p].type = "guildMemberRemove")
            => \A i \in 1..Len(logs[p][1]) :
                  (IsKickOf(logs[p][1][i], raw[p].id) /\ FirstOf(logs[p][1], raw[p].id, i))
                  => emitted'[p] = << [name |-> "kick",
                                       args |-> << Member(raw[p].id, None),
                                                   logs[p][1][i] >>] >>]_vars
    /\ [](\A p \in Pipelines :
            (sent[p] # << >> /\ HandledEvent(p).name = "kick")
            => /\ Includes(sent[p][1].content, "[KICK] by "
                              \o escape(HandledEvent(p).args[2].executor.tag) \o " with")
               /\ raw[p].type = "guildMemberRemove"
               /\ IsKickOf(HandledEvent(p).args[2], raw[p].id))

C4_Witness ==
    \E p \in Pipelines :
        /\ raw[p].type = "guildMemberRemove"
        /\ Len(emitted[p]) = 1
        /\ HandledEvent(p).name = "kick"
        /\ HandledEvent(p).args[2].executor.tag = "m*d#2"
        /\ Len(sent[p]) = 1
        /\ Includes(sent[p][1].content, "m\\*d#2")
        /\ ~Includes(sent[p][1].content, "m*d#2")

(* C5: when the first entry of the fetched log that is a kick, ban or      *)
(* unban of the removed member is a ban or an unban, the guildMemberRemove *)
(* pipeline ends there, having emitted nothing and sent nothing; and a     *)
(* guildMemberRemove pipeline never emits anything but `left` or `kick`.   *)
C5_BanFirstEmitsNothing ==
    /\ [][\A p \in Pipelines :
            (ResumesWithLogs(p) /\ raw[p].type = "guildMemberRemove")
            => \A i \in 1..Len(logs[p][1]) :
                  (IsBanOf(logs[p][1][i], raw[p].id) /\ FirstOf(logs[p][1], raw[p].id, i))
                  => /\ emitted'[p] = << >>
                     /\ sent'[p] = << >>
                     /\ pc'[p] = "done"]_vars
    /\ [](\A p \in Pipelines :
            raw[p].type = "guildMemberRemove"
            => /\ \A i \in 1..Len(emitted[p]) : emitted[p][i].name \in {"left", "kick"}
               /\ emitted[p] = << >> => sent[p] = << >>)

C5_Witness ==
    \E p \in Pipelines :
        /\ raw[p].type = "guildMemberRemove"
        /\ pc[p] = "done"
        /\ failed[p] = ""
        /\ queries[p] = << "ALL" >>
        /\ emitted[p] = << >>
        /\ sent[p] = << >>

\* The bare event a ban or unban pipeline emits without an audit entry.
BareKind(p) == IF raw[p].type = "guildBanAdd" THEN "ban" ELSE "unban"

(* C6 as claimed: when fetchAuditLogs is rejected, the pipeline has made   *)
(* that one query only and has still emitted exactly one un-enriched       *)
(* event: `left` for a member remove, the bare `ban` / `unban` otherwise.  *)
C6_FetchFailureDegrades ==
    \A p \in Pipelines :
        failed[p] = "fetchAuditLogs"
        => /\ Len(queries[p]) = 1
           /\ Len(emitted[p]) = 1
           /\ emitted[p][1].name =
                 (IF raw[p].type = "guildMemberRemove" THEN "left" ELSE BareKind(p))

(* C7 as claimed: when the completion fetch of a partial member is         *)
(* rejected, the guildMemberRemove pipeline has emitted `left` for that    *)
(* member.                                                                 *)
C7_MemberFetchFailureLeft ==
    \A p \in Pipelines :
        failed[p] = "member.fetch"
        => emitted[p] = << [name |-> "left", args |-> << Member(raw[p].id, None) >>] >>

IsBanEvent(p) == raw[p].type \in {"guildBanAdd", "guildBanRemove"}

\* C8, the queries: none without the permission, one of the matching action
\* type with it.
C8_Queries ==
    \A p \in Pipelines :
        IsBanEvent(p)
        => IF "VIEW_AUDIT_LOG" \notin raw[p].permissions
           THEN /\ queries[p] = << >>
                /\ emitted[p] = << [name |-> BareKind(p),
                                    args |-> << Guild, User(raw[p].id) >>] >>
           ELSE queries[p] = << IF raw[p].type = "guildBanAdd"
                                THEN "MEMBER_BAN_ADD" ELSE "MEMBER_BAN_REMOVE" >>

\* C8, the resolution with a fetched log: the bare kind when no entry targets
\* the user, the with-cause kind carrying the first entry that does otherwise.
C8_Resolution ==
    \A p \in Pipelines :
        (ResumesWithLogs(p) /\ IsBanEvent(p))
        => LET log == logs[p][1]
               user == User(raw[p].id)
           IN  /\ \A i \in 1..Len(log) : log[i].action =
                     (IF raw[p].type = "guildBanAdd"
                      THEN "MEMBER_BAN_ADD" ELSE "MEMBER_BAN_REMOVE")
               /\ (\A i \in 1..Len(log) : log[i].target.id # user.id)
                     => emitted'[p] = << [name |-> BareKind(p),
                                          args |-> << Guild, user >>] >>
               /\ \A i \in 1..Len(log) :
                     (/\ log[i].target.id = user.id
                      /\ \A j \in 1..(i - 1) : log[j].target.id # user.id)
                     => emitted'[p] =
                           << [name |-> IF raw[p].type = "guildBanAdd"
                                        THEN "banAudit" ELSE "unbanAudit",
                               args |-> << Guild, user, log[i] >>] >>

\* C8, the bare lines: no executor and no reason.
C8_BareLines ==
    \A p \in Pipelines :
        (sent[p] # << >> /\ HandledEvent(p).name \in {"ban", "unban"})
        => /\ ~Includes(sent[p][1].content, " by ")
           /\ ~Includes(sent[p][1].content, "reason")

\* C8, the count: a ban or unban pipeline that is over emitted one event.
C8_ExactlyOne ==
    \A p \in Pipelines :
        (IsBanEvent(p) /\ Terminated(p)) => Len(emitted[p]) = 1

(* C8 as claimed: a ban or unban pipeline makes no query without the       *)
(* permission and emits the bare kind; with it, it fetches entries of the  *)
(* matching type only and emits the bare kind when none targets the user,  *)
(* the with-cause kind carrying the first that does otherwise; and every   *)
(* ban or unban event has exactly one event emitted.                       *)
C8_Original ==
    /\ [](C8_Queries /\ C8_BareLines /\ C8_ExactlyOne)
    /\ [][C8_Resolution]_vars

\* C8 but for the count after a rejected fetchAuditLogs.
C8_UnlessFetchRejected ==
    /\ [](C8_Queries /\ C8_BareLines)
    /\ [](\A p \in Pipelines :
            (IsBanEvent(p) /\ Terminated(p) /\ failed[p] # "fetchAuditLogs")
            => Len(emitted[p]) = 1)
    /\ [][C8_Resolution]_vars

(* C9: the settings key #resolveChannel computed for the handled event is  *)
(* `ban` for ban, banAudit, unban and unbanAudit and the event name itself *)
(* for join, left, rename and kick; it is never `unban` nor a name ending  *)
(* in the audit postfix, and computing the key of the key returns it.      *)
C9_SettingsKey ==
    \A p \in Pipelines :
        resolved[p] # None
        => LET name == HandledEvent(p).name
               key == resolved[p][1].key
           IN  /\ name \in {"ban", "banAudit", "unban", "unbanAudit"} => key = "ban"
               /\ name \in {"join", "left", "rename", "kick"} => key = name
               /\ key \in {"join", "left", "rename", "kick", "ban"}
               /\ SettingsKey(key) = key

C9_Witness ==
    \E p \in Pipelines :
        /\ resolved[p] # None
        /\ HandledEvent(p).name = "unbanAudit"
        /\ resolved[p][1].key = "ban"

(* C10: a guildMemberUpdate pipeline emits `rename`, with the previous and *)
(* the current member, exactly when the two nicknames differ; with equal   *)
(* nicknames (both null included) it ends at once with nothing emitted and *)
(* nothing sent.                                                           *)
C10_RenameIffNicknameChanged ==
    \A p \in Pipelines :
        raw[p].type = "guildMemberUpdate"
        => IF raw[p].previous # raw[p].current
           THEN emitted[p] = << [name |-> "rename",
                                 args |-> << Member(raw[p].id, raw[p].previous),
                                             Member(raw[p].id, raw[p].current) >>] >>
           ELSE emitted[p] = << >> /\ sent[p] = << >> /\ pc[p] = "done"

C10_Witness ==
    \E p \in Pipelines :
        /\ raw[p].type = "guildMemberUpdate"
        /\ raw[p].previous = None
        /\ raw[p].current = None
        /\ pc[p] = "done"
        /\ emitted[p] = << >>

\* In the record pipeline p loaded, the master flag and the flag governing
\* the handled event are on.
FlagsOn(p) ==
    /\ loaded[p] # None
    /\ loaded[p][1].logs_enabled = 1
    /\ loaded[p][1][GoverningFlag(HandledEvent(p).name)] = 1

(* C11: when the loaded record has the master flag and the event's flag on *)
(* and a public channel id that the guild has no channel for, or whose     *)
(* channel is not a text channel, the pipeline is over without a rejected  *)
(* promise and has called send on no channel.                              *)
C11_UnusableChannelEndsSilently ==
    \A p \in Pipelines :
        (/\ FlagsOn(p)
         /\ loaded[p][1].logs_public_channel # None
         /\ LET id == loaded[p][1].logs_public_channel[1]
            IN  id \notin DOMAIN GuildChannels \/ GuildChannels[id].type # "text")
        => /\ sent[p] = << >>
           /\ pc[p] = "done"
           /\ failed[p] = ""
           /\ resolved[p] # None
           /\ \A step \in 1..Len(order) : order[step] # << p, "send" >>

C11_Witness ==
    \E p \in Pipelines :
        /\ FlagsOn(p)
        /\ loaded[p][1].logs_public_channel = Some("13")
        /\ resolved[p] # None
        /\ resolved[p][1].channel = None
        /\ pc[p] = "done"
        /\ sent[p] = << >>

\* Pipeline p handles a kick with a non-empty reason and loaded a record with
\* the master and kick flags on and a text channel of the guild as public
\* channel, whatever the other flags.
KickDeliverable(p) ==
    /\ raw[p].type = "guildMemberRemove"
    /\ emitted[p] # << >>
    /\ HandledEvent(p).name = "kick"
    /\ TruthyString(HandledEvent(p).args[2].reason)
    /\ loaded[p] # None
    /\ loaded[p][1].logs_enabled = 1
    /\ loaded[p][1].logs_kick_event = 1
    /\ loaded[p][1].logs_public_channel # None
    /\ loaded[p][1].logs_public_channel[1] \in DOMAIN GuildChannels
    /\ GuildChannels[loaded[p][1].logs_public_channel[1]].type = "text"

(* C12 as claimed: a kick with a non-empty reason, in a guild whose record *)
(* has the master and kick flags on and an existing text channel C as      *)
(* public channel, has exactly one message sent, to C: the kick line,      *)
(* containing the entry's executor tag and its reason.                     *)
C12_Original ==
    \A p \in Pipelines :
        KickDeliverable(p)
        => /\ Len(sent[p]) = 1
           /\ Some(sent[p][1].channel) = loaded[p][1].logs_public_channel
           /\ Includes(sent[p][1].content, "[KICK]")
           /\ Includes(sent[p][1].content, HandledEvent(p).args[2].executor.tag)
           /\ Includes(sent[p][1].content, HandledEvent(p).args[2].reason[1])

(* C12 as amended: the same, the line containing the executor tag and the  *)
(* reason as escapeMarkdown writes them, and the member's id; the left     *)
(* flag of the record plays no role.                                       *)
C12_KickEndToEnd ==
    \A p \in Pipelines :
        KickDeliverable(p)
        => /\ Len(sent[p]) = 1
           /\ Some(sent[p][1].channel) = loaded[p][1].logs_public_channel
           /\ Includes(sent[p][1].content,
                       "[KICK] by " \o escape(HandledEvent(p).args[2].executor.tag)
                           \o " with reason "
                           \o escape(HandledEvent(p).args[2].reason[1]) \o " | ")
           /\ Includes(sent[p][1].content, "ID: " \o raw[p].id)

C12_Witness ==
    \E p \in Pipelines :
        /\ KickDeliverable(p)
        /\ loaded[p][1].logs_left_event = 0
        /\ HandledEvent(p).args[2].executor.tag = "Mod#1"
        /\ HandledEvent(p).args[2].reason = Some("sp*m")
        /\ Len(sent[p]) = 1
        /\ sent[p][1].channel = "10"
        /\ Includes(sent[p][1].content, "Mod#1 with reason sp\\*m")
        /\ pc[p] = "done"

\* The number of send calls of pipeline p among the steps of order.
RECURSIVE SendCalls(_, _)
SendCalls(p, steps) ==
    IF steps = << >> THEN 0
    ELSE (IF Head(steps) = << p, "send" >> THEN 1 ELSE 0) + SendCalls(p, Tail(steps))

(* C13: for every platform event, the pipeline emits at most one event on  *)
(* the internal emitter and calls channel.send at most once; once send     *)
(* was called, no later step of that pipeline, after the send resolved or  *)
(* was rejected, emits or calls send again.                                *)
C13_AtMostOneNotice ==
    /\ [](\A p \in Pipelines :
            /\ Len(emitted[p]) <= 1
            /\ Len(sent[p]) <= 1
            /\ SendCalls(p, order) = Len(sent[p])
            /\ pc[p] = "idle" => emitted[p] = << >> /\ sent[p] = << >>)
    /\ [][\A p \in Pipelines :
            pc[p] \in {"send", "done", "rejected"}
            => \/ sent'[p] = sent[p] /\ emitted'[p] = emitted[p]
                  /\ pc'[p] \in {"send", "done", "rejected"}
               \/ pc'[p] = "idle" /\ pc[p] # "send"]_vars

C13_Witness ==
    \E p \in Pipelines :
        /\ pc[p] = "rejected"
        /\ failed[p] = "send"
        /\ Len(emitted[p]) = 1
        /\ Len(sent[p]) = 1
        /\ SendCalls(p, order) = 1

(* C14 as claimed: whichever of member.fetch, fetchAuditLogs, findOrCreate *)
(* and channel.send fail, a pipeline that is over ended in a defined       *)
(* outcome (notice sent, delivery declined, or an un-enriched event        *)
(* handled) and never with a rejected promise nobody handles; a pipeline   *)
(* whose send failed ended normally.                                       *)
C14_EveryFaultHasFallback ==
    \A p \in Pipelines :
        /\ pc[p] # "rejected"
        /\ Terminated(p) => failed[p] = ""
        /\ (Terminated(p) /\ raw[p].type \in {"guildMemberAdd", "guildBanAdd",
                                               "guildBanRemove"})
              => Len(emitted[p]) = 1 /\ resolved[p] # None

\* The audit entry the event pipeline p handles carries: the last argument.
CarriedEntry(p) == HandledEvent(p).args[Len(HandledEvent(p).args)]

\* The line pipeline p sent names the executor of the carried entry and
\* gives its reason, or says that there is none, as escapeMarkdown writes them.
LineCarriesCause(p) ==
    /\ Includes(sent[p][1].content, " by " \o escape(CarriedEntry(p).executor.tag))
    /\ IF TruthyString(CarriedEntry(p).reason)
       THEN Includes(sent[p][1].content, "reason " \o escape(CarriedEntry(p).reason[1]))
       ELSE Includes(sent[p][1].content, "no reason")

(* C15 as claimed: every line sent for a kick, banAudit or unbanAudit      *)
(* event contains the executor's tag and either the entry's reason, when   *)
(* it is present and non-empty, or the "no reason" marker.                 *)
C15_AuditLinesCarryCause ==
    \A p \in Pipelines :
        (sent[p] # << >> /\ HandledEvent(p).name \in {"kick", "banAudit", "unbanAudit"})
        => LineCarriesCause(p)

\* C15 for the kick and banAudit lines alone.
C15_KickAndBanLines ==
    \A p \in Pipelines :
        (sent[p] # << >> /\ HandledEvent(p).name \in {"kick", "banAudit"})
        => LineCarriesCause(p)

\* The slots of pipeline p.
Slots(p) ==
    << pc[p], raw[p], queries[p], logs[p], emitted[p], loaded[p], resolved[p],
       sent[p], failed[p] >>

\* Pipeline p is suspended at an await, or about to resume from one.
Suspended(p) ==
    pc[p] \in {"memberFetch", "fetchAuditLogs", "logsFetched", "findOrCreate", "send"}

(* C16: with two events in flight, every step is a step of one pipeline    *)
(* and leaves the slots of the other as they are; and pipeline 2, whose    *)
(* promises are fulfilled unless rejected, always runs to its end, whether *)
(* or not pipeline 1 ever leaves the await it is suspended at.             *)
C16_PipelinesIndependent ==
    /\ [][\A p \in Pipelines2 :
            Slots(p)' # Slots(p)
            => \A q \in Pipelines2 \ {p} : Slots(q)' = Slots(q)]_vars
    /\ \A at \in {"memberFetch", "fetchAuditLogs", "logsFetched", "findOrCreate",
                   "send"} :
          (pc[2] = at) ~> Terminated(2)

\* A rename arrived before a leave of the same guild, and the notice of the
\* leave was sent before that of the rename.
C16_Witness ==
    /\ raw[1].type = "guildMemberUpdate"
    /\ raw[2].type = "guildMemberRemove"
    /\ order = << << 1, "event" >>, << 2, "event" >>, << 2, "send" >>, << 1, "send" >> >>
    /\ HandledEvent(1).name = "rename"
    /\ HandledEvent(2).name = "left"
    /\ Len(sent[1]) = 1
    /\ Len(sent[2]) = 1
    /\ sent[1][1].channel = sent[2][1].channel

\* The step is one of a pipeline: the slots of some pipeline change.
PipelineStep == \E p \in Pipelines : Slots(p)' # Slots(p)

(* C17 as claimed: no step of a pipeline changes the store: neither a flag *)
(* or channel reference of the guild's row, nor whether the guild has a    *)
(* row.                                                                    *)
C17_Original == [][PipelineStep => store' = store]_vars

(* C17 as amended: no step of a pipeline changes a flag or a channel       *)
(* reference of the row a guild has; for a guild without row the           *)
(* pipeline's findOrCreate adds one, with every feature off and no         *)
(* channel; every other change of the store is the write of a settings     *)
(* command or the row MessageProcessor makes on a mention.                 *)
C17_PipelineKeepsRow ==
    [][/\ PipelineStep
          => IF store # None THEN store' = store
             ELSE store' \in {None, Some(DefaultRecord)}
       /\ store' # store
          => \/ PipelineStep /\ store = None /\ store' = Some(DefaultRecord)
             \/ cmd.pc = "save" /\ cmd'.pc = "done"
             \/ store = None /\ store' = Some(DefaultRecord) /\ cmd' = cmd]_vars

C17_Witness ==
    \E p \in Pipelines :
        /\ pc[p] = "done"
        /\ Len(sent[p]) = 1
        /\ store # None
        /\ store[1].logs_enabled = 1
        /\ store[1].logs_public_channel = Some("12")
        /\ loaded[p] = store

\* The flag columns of the features, the master flag apart.
FeatureFlagFields == FlagFields \ {"logs_enabled"}

(* C18 as claimed: the command run with the arguments enable all, or       *)
(* disable all, ends without error, and every feature flag of the guild's  *)
(* row then holds the state asked for.                                     *)
C18_AllAccepted ==
    (/\ cmd.pc \in {"done", "failed"}
     /\ Len(cmd.args) = 2
     /\ cmd.args[1] \in {"enable", "disable"}
     /\ cmd.args[2] = "all")
    => /\ cmd.pc = "done"
       /\ cmd.error = ""
       /\ \A field \in FeatureFlagFields :
             store[1][field] = (IF cmd.args[1] = "enable" THEN 1 ELSE 0)

\* The row findOrCreate returns when it is called in the current state.
RowAtLoad == IF store = None THEN DefaultRecord ELSE store[1]

(* C19: with commands and pipelines interleaved, the record a pipeline     *)
(* loads is the guild's row at the moment of the load; a pipeline has      *)
(* called send only if that record has the master flag and the flag of     *)
(* the event's settings key on and holds the channel sent to as public     *)
(* channel; and from the load on, whatever the command writes, the record  *)
(* loaded, the channel resolved and the send call made stay as they are    *)
(* until the pipeline is over.                                             *)
C19_SnapshotDecides ==
    /\ [](\A p \in Pipelines :
            sent[p] # << >>
            => /\ loaded[p] # None
               /\ loaded[p][1].logs_enabled = 1
               /\ loaded[p][1][GoverningFlag(HandledEvent(p).name)] = 1
               /\ loaded[p][1].logs_public_channel = Some(sent[p][1].channel))
    /\ [][\A p \in Pipelines :
            (loaded[p] = None /\ loaded'[p] # None)
            => /\ loaded'[p] = Some(RowAtLoad)
               /\ (\/ RowAtLoad.logs_enabled = 0
                   \/ RowAtLoad[GoverningFlag(HandledEvent(p).name)] = 0
                   \/ RowAtLoad.logs_public_channel = None) => sent'[p] = << >>]_vars
    /\ [][\A p \in Pipelines :
            (loaded[p] # None /\ pc'[p] # "idle")
            => /\ loaded'[p] = loaded[p]
               /\ resolved'[p] = resolved[p]
               /\ sent'[p] = sent[p]]_vars

\* The notice was sent to channel 10 on the record loaded; since then the
\* command has switched logging off and moved the public channel.
C19_Witness ==
    \E p \in Pipelines :
        /\ pc[p] = "done"
        /\ Len(sent[p]) = 1
        /\ sent[p][1].channel = "10"
        /\ HandledEvent(p).name = "kick"
        /\ store # None
        /\ store[1].logs_enabled = 0
        /\ store[1].logs_public_channel = Some("12")
        /\ loaded[p][1].logs_enabled = 1

\* The features of the pipeline's events.
Features == {"join", "left", "rename", "kick", "ban"}

\* The command that is over was run with these arguments and returned.
Returned(args) == cmd.pc = "done" /\ cmd.args = args

\* C20, the commands: once a command has returned, the column it names
\* holds what it asked for.
C20_CommandsWrite ==
    /\ Returned(<< "enable" >>) => store[1].logs_enabled = 1
    /\ Returned(<< "disable" >>) => store[1].logs_enabled = 0
    /\ \A k \in Features :
          /\ Returned(<< "enable", k >>) => store[1][GoverningFlag(k)] = 1
          /\ Returned(<< "disable", k >>) => store[1][GoverningFlag(k)] = 0
    /\ Returned(<< "public" >>) => store[1].logs_public_channel = None
    /\ Returned(<< "public", "<#10>" >>) => store[1].logs_public_channel = Some("10")
    /\ Returned(<< "public", "12" >>) => store[1].logs_public_channel = Some("12")

\* C20, one command at a time: the write of a command changes one column
\* at most, and a command that throws or whose write fails changes none.
C20_OneColumn ==
    cmd' # cmd
    => /\ store # None => store' # None
       /\ (store # None /\ store' # store)
             => /\ cmd.pc = "save" /\ cmd'.pc = "done"
                /\ Cardinality({field \in DOMAIN store[1] :
                                    store'[1][field] # store[1][field]}) = 1

\* C20, the pipeline: once it has loaded the guild's row, it has sent its
\* notice to the row's public channel if the master flag and the flag of the
\* event's feature are on and the channel is set, and nothing otherwise; the
\* feature of ban, unban, banAudit and unbanAudit is ban.
C20_PipelineFollows ==
    \A p \in Pipelines :
        loaded[p] # None
        => /\ loaded[p] = store
           /\ IF /\ store[1].logs_enabled = 1
                 /\ store[1][GoverningFlag(HandledEvent(p).name)] = 1
                 /\ store[1].logs_public_channel # None
              THEN /\ Len(sent[p]) = 1
                   /\ Some(sent[p][1].channel) = store[1].logs_public_channel
              ELSE sent[p] = << >> /\ pc[p] = "done"

(* C20: a settings command that returned has written the column it names   *)
(* (log enable / disable: the master flag; log enable / disable k: the     *)
(* flag of feature k; log public [<channel>]: the public channel) and no   *)
(* other; and a pipeline started afterwards, once it has loaded the row,   *)
(* has sent its notice to the public channel of the row when the master    *)
(* flag and the flag of the event's feature are on and the channel is set, *)
(* and nothing when one is off or the channel is reset; ban, unban and     *)
(* their with-cause events go by the flag of ban.                          *)
C20_SettingsRoundTrip ==
    /\ [](C20_CommandsWrite /\ C20_PipelineFollows)
    /\ [][C20_OneColumn]_vars

\* Logging, the ban feature and the public channel 12 were set by commands,
\* and the notice of an unban with cause was sent to channel 12.
C20_Witness ==
    \E p \in Pipelines :
        /\ pc[p] = "done"
        /\ Len(sent[p]) = 1
        /\ sent[p][1].channel = "12"
        /\ HandledEvent(p).name = "unbanAudit"
        /\ store[1].logs_ban_event = 1
        /\ store[1].logs_kick_event = 0

\* The channel references of the guild's row.
StoredChannels ==
    IF store = None THEN {}
    ELSE {store[1].logs_public_channel, store[1].logs_private_channel}

\* A reference a command may have stored: null, or the id of a text channel
\* of the guild that the bot can view.
UsableReference(ref) ==
    \/ ref = None
    \/ \E c \in DOMAIN GuildChannels :
          /\ ref = Some(c)
          /\ GuildChannels[c].id = c
          /\ GuildChannels[c].type = "text"
          /\ GuildChannels[c].viewable

\* The channel arguments that name no text channel the bot can view: no
\* digits, the id of no channel, a voice channel, a channel it cannot view.
RefusedChannels == {"general", "13", "11", "14"}

\* The command is log public|private with a refused channel argument.
RefusedCommand(c) ==
    /\ Len(c.args) = 2
    /\ c.args[1] \in {"public", "private"}
    /\ c.args[2] \in RefusedChannels

\* C21, one step: a command with a refused channel argument has failed with
\* the error of its validation as soon as it is run, and the row is as it
\* was.
C21_RefusedLeavesRow ==
    RefusedCommand(cmd')
    => /\ cmd'.pc = "failed"
       /\ cmd'.error = IF cmd'.args[2] = "general"
                       THEN "Incorrect channel ID passed! This argument must contains Channel ID!"
                       ELSE "This channel is not exist or it is not viewable by bot!"
       /\ store' = store

(* C21: whatever commands were run, each channel reference of the guild's  *)
(* row is null or the id of a text channel of the guild that the bot can   *)
(* view; and a log public|private command whose channel argument has no    *)
(* digits or names no channel, a voice channel or a channel the bot cannot *)
(* view fails with an error and leaves the row as it was.                  *)
C21_ChannelReferencesValid ==
    /\ [](\A ref \in StoredChannels : UsableReference(ref))
    /\ [][C21_RefusedLeavesRow]_vars

\* The public channel was set to 10 and the private channel to 12, and the
\* command log private 14, of a channel the bot cannot view, has failed.
C21_Witness ==
    /\ store # None
    /\ store[1].logs_public_channel = Some("10")
    /\ store[1].logs_private_channel = Some("12")
    /\ cmd.pc = "failed"
    /\ cmd.args = << "private", "14" >>

\* The event names of the emits of lines 44-99.
EmittedNames ==
    {"join", "left", "kick", "rename", "ban", "unban", "banAudit", "unbanAudit"}

\* What an argument of an emission is: a member, a user, an audit log entry
\* or the guild.
Kind(value) ==
    IF "nickname" \in DOMAIN value THEN "member"
    ELSE IF "action" \in DOMAIN value THEN "entry"
    ELSE IF "tag" \in DOMAIN value THEN "user"
    ELSE "guild"

Shape(args) == [i \in 1..Len(args) |-> Kind(args[i])]

\* The parameters of the renderer of eventName, lines 169-226.
RendererParameters(eventName) ==
    CASE eventName \in {"join", "left"} -> << "member" >>
      [] eventName = "rename" -> << "member", "member" >>
      [] eventName \in {"ban", "unban"} -> << "guild", "user" >>
      [] eventName \in {"banAudit", "unbanAudit"} -> << "guild", "user", "entry" >>
      [] eventName = "kick" -> << "member", "entry" >>

\* The parameter of the guild resolver of eventName, lines 239-281.
ResolverParameters(eventName) ==
    IF eventName \in {"join", "left", "rename", "kick"}
    THEN << "member" >> ELSE << "guild" >>

\* C22, the events emitted: each has one of the eight names, a renderer and
\* a guild resolver under that name, the arguments its renderer takes, the
\* first argument its guild resolver takes, and the guild as its resolved
\* guild.
C22_Handled ==
    /\ EmittedNames \subseteq RendererNames \cap GuildResolverNames
    /\ \A p \in Pipelines : \A i \in 1..Len(emitted[p]) :
          LET eventName == emitted[p][i].name
              args == emitted[p][i].args
          IN  /\ eventName \in EmittedNames
              /\ eventName \in RendererNames
              /\ eventName \in GuildResolverNames
              /\ Shape(args) = RendererParameters(eventName)
              /\ SubSeq(Shape(args), 1, 1) = ResolverParameters(eventName)
              /\ guildResolver(eventName, args) = Some(Guild)
              /\ failed[p] # "resolveChannel"

\* C22, the emission: the event is taken by its listener, which is waiting
\* for the guild's row.
C22_Taken ==
    \A p \in Pipelines :
        Len(emitted'[p]) > Len(emitted[p]) => pc'[p] = "findOrCreate"

(* C22: every event the resolvers emit (join, left, kick, rename, ban,     *)
(* unban, banAudit, unbanAudit) has a listener with a renderer and a guild *)
(* resolver that take the arguments of the emission; no emitted event is   *)
(* dropped for lack of a listener, and the guild resolved for it is never  *)
(* undefined.                                                              *)
C22_DispatchTotal == [](C22_Handled) /\ [][C22_Taken]_vars

\* An unban with its audit log entry was emitted with guild, user and
\* entry, and its notice was sent.
C22_Witness ==
    \E p \in Pipelines :
        /\ Len(emitted[p]) = 1
        /\ emitted[p][1].name = "unbanAudit"
        /\ Shape(emitted[p][1].args) = << "guild", "user", "entry" >>
        /\ Len(sent[p]) = 1

====
